---- MODULE Spec2Model ----
(***************************************************************************)
(* Song catalog manager: the dashboard aggregation (countByField, top-N    *)
(* ranking, share breakdowns), the song form's field validation, the redux *)
(* slice with its sagas, and the REST backend they talk to.                *)
(***************************************************************************)
EXTENDS Integers, Sequences, FiniteSets, TLC

VARIABLES
    songs,      \* state.songs of the redux slice (the local record set)
    loading,    \* state.loading
    error,      \* state.error
    lastAction, \* the redux action dispatched last, and whether its reducer threw
    view,       \* what SongManager last rendered from songs (memoised aggregates)
    mounted,    \* SongManager has mounted (its effect dispatched fetchSongsRequest)
    sagaAlive,  \* rootSaga and its takeEvery watchers are still running
    tasks,      \* the saga tasks forked and not finished, oldest first
    db,         \* the backend's song collection
    nextId,     \* the next identifier the collection assigns
    form,       \* the SongForm on screen
    chart,      \* a chart component drawn on its own: its props and what it shows
    songsRef,   \* the identity of the array in state.songs (what === compares)
    memo,       \* the hook state of SongManager: the dependencies its memoised
                \* values were computed for, and the array its last render selected
    songList,   \* the song list of the page: filterField, filterText and the
                \* records shown (filteredSongs)
    deleteSongId \* the identifier awaiting confirmation in the delete dialog

vars == <<songs, loading, error, lastAction, view, mounted, sagaAlive, tasks, db,
          nextId, form, chart, songsRef, memo, songList, deleteSongId>>

sliceVars == <<songs, loading, error, lastAction, songsRef>>

pageVars == <<view, memo, songList>>

sagaVars == <<mounted, sagaAlive, tasks>>

serverVars == <<db, nextId>>

(***************************************************************************)
(* Bounds                                                                  *)
(***************************************************************************)
MaxSongs == 6

(***************************************************************************)
(* JavaScript values.  A frequency table is a plain object literal {}: its *)
(* own properties are kept in creation order, property reads fall back to  *)
(* Object.prototype, and the stored "counts" are whatever (x || 0) + 1     *)
(* evaluates to, a number or a string.                                     *)
(***************************************************************************)
Num(n) == [t |-> "number", n |-> n, s |-> ""]
Str(s) == [t |-> "string", n |-> 0, s |-> s]
NaN == [t |-> "NaN", n |-> 0, s |-> ""]
Undefined == [t |-> "undefined", n |-> 0, s |-> ""]
\* an object or function value; s is what String(value) gives
Obj(s) == [t |-> "object", n |-> 0, s |-> s]

\* properties every {} inherits from Object.prototype
ProtoProps ==
    [constructor |-> Obj("function Object() { [native code] }"),
     toString |-> Obj("function toString() { [native code] }"),
     valueOf |-> Obj("function valueOf() { [native code] }"),
     hasOwnProperty |-> Obj("function hasOwnProperty() { [native code] }"),
     __proto__ |-> Obj("[object Object]")]

\* keys that are canonical array indices, with their numeric value
IndexKeys == [k \in {"7", "1989"} |-> IF k = "7" THEN 7 ELSE 1989]

IsIndexKey(k) == k \in DOMAIN IndexKeys

Truthy(v) ==
    CASE v.t = "number" -> v.n # 0
      [] v.t = "string" -> v.s # ""
      [] v.t = "object" -> TRUE
      [] OTHER -> FALSE

ToStr(v) ==
    CASE v.t = "number" -> ToString(v.n)
      [] v.t = "NaN" -> "NaN"
      [] v.t = "undefined" -> "undefined"
      [] OTHER -> v.s

\* ToNumber: none of the strings that arise here is numeric
ToNum(v) == IF v.t = "number" THEN v ELSE NaN

\* a + b
Plus(a, b) ==
    IF a.t \in {"string", "object"} \/ b.t \in {"string", "object"}
    THEN Str(ToStr(a) \o ToStr(b))
    ELSE IF ToNum(a).t = "NaN" \/ ToNum(b).t = "NaN" THEN NaN
    ELSE Num(a.n + b.n)

\* a - b
Minus(a, b) ==
    IF ToNum(a).t = "NaN" \/ ToNum(b).t = "NaN" THEN NaN
    ELSE Num(a.n - b.n)

\* a > 0
GtZero(v) == ToNum(v).t = "number" /\ v.n > 0

\* a || b
Or(a, b) == IF Truthy(a) THEN a ELSE b

(***************************************************************************)
(* Plain objects: a sequence of own properties <<key, value>> in creation  *)
(* order.                                                                  *)
(***************************************************************************)
EmptyObject == <<>>

OwnKeys(obj) == {obj[i][1] : i \in DOMAIN obj}

OwnIndex(obj, k) == CHOOSE i \in DOMAIN obj : obj[i][1] = k

\* obj[k]
Get(obj, k) ==
    IF k \in OwnKeys(obj) THEN obj[OwnIndex(obj, k)][2]
    ELSE IF k \in DOMAIN ProtoProps THEN ProtoProps[k]
    ELSE Undefined

\* obj[k] = v; "__proto__" is an accessor: a non-object value is ignored
Set(obj, k, v) ==
    IF k = "__proto__" THEN obj
    ELSE IF k \in OwnKeys(obj)
         THEN [obj EXCEPT ![OwnIndex(obj, k)] = <<k, v>>]
         ELSE Append(obj, <<k, v>>)

RECURSIVE InsertIndexEntry(_, _)
\* e inserted into a sequence of index-keyed entries kept in ascending order
InsertIndexEntry(e, sorted) ==
    IF sorted = <<>> THEN <<e>>
    ELSE IF IndexKeys[e[1]] < IndexKeys[Head(sorted)[1]]
         THEN <<e>> \o sorted
         ELSE <<Head(sorted)>> \o InsertIndexEntry(e, Tail(sorted))

RECURSIVE IndexEntries(_)
IndexEntries(obj) ==
    IF obj = <<>> THEN <<>>
    ELSE IF IsIndexKey(Head(obj)[1])
         THEN InsertIndexEntry(Head(obj), IndexEntries(Tail(obj)))
         ELSE IndexEntries(Tail(obj))

\* Object.entries(obj): integer-like keys first, ascending, then the other
\* keys in creation order
ObjectEntries(obj) ==
    IndexEntries(obj) \o SelectSeq(obj, LAMBDA e : ~IsIndexKey(e[1]))

(***************************************************************************)
(* Array.prototype.sort with the comparator (a, b) => b[1] - a[1]: a       *)
(* stable sort; a NaN comparison result counts as 0.                       *)
(***************************************************************************)
\* true when the comparator returns a value > 0 for (a, b): b goes first
CompareDesc(a, b) == GtZero(Minus(b[2], a[2]))

RECURSIVE InsertSorted(_, _)
\* e placed after every element of sorted that does not have to follow it
InsertSorted(sorted, e) ==
    IF sorted = <<>> THEN <<e>>
    ELSE LET last == sorted[Len(sorted)] IN
         IF CompareDesc(last, e)
         THEN Append(InsertSorted(SubSeq(sorted, 1, Len(sorted) - 1), e), last)
         ELSE Append(sorted, e)

RECURSIVE SortDesc(_)
SortDesc(entries) ==
    IF entries = <<>> THEN <<>>
    ELSE InsertSorted(SortDesc(SubSeq(entries, 1, Len(entries) - 1)),
                      entries[Len(entries)])

\* .slice(0, n + 1): one entry too many
SliceOneMore(seq, n) == SubSeq(seq, 1, IF Len(seq) < n + 1 THEN Len(seq) ELSE n + 1)

\* .slice(0, n)
Slice0(seq, n) == SubSeq(seq, 1, IF Len(seq) < n THEN Len(seq) ELSE n)

(***************************************************************************)
(* Aggregation                                                             *)
(***************************************************************************)

RECURSIVE countByFieldFrom(_, _, _)
countByFieldFrom(acc, records, field) ==
    IF records = <<>> THEN acc
    ELSE LET key == Head(records)[field] IN
         countByFieldFrom(Set(acc, key, Plus(Or(Get(acc, key), Num(0)), Num(1))),
                          Tail(records), field)

\* songs.reduce((acc, s) => { acc[s[field]] = (acc[s[field]] || 0) + 1; ... }, {})
countByField(records, field) == countByFieldFrom(EmptyObject, records, field)

\* Object.entries(data).sort(([, a], [, b]) => b - a).slice(0, maxItems)
sortedData(data, maxItems) == Slice0(SortDesc(ObjectEntries(data)), maxItems)

\* new Set(songs.map(s => s[field])).size
uniqueCount(records, field) == Cardinality({records[i][field] : i \in DOMAIN records})

RECURSIVE sumCounts(_, _)
\* entries.reduce((sum, [, count]) => sum + count, 0)
sumCounts(sum, entries) ==
    IF entries = <<>> THEN sum
    ELSE sumCounts(Plus(sum, Head(entries)[2]), Tail(entries))

\* Object.entries(genreCount).sort((a, b) => b[1] - a[1])[0]?.[0] || "-"
mostCommonGenre(genreCount) ==
    LET sorted == SortDesc(ObjectEntries(genreCount))
        first == IF sorted = <<>> THEN Undefined ELSE Str(sorted[1][1])
    IN  Or(first, Str("-")).s

(***************************************************************************)
(* Albums per artist.  A result is [threw, value]: threw when the code     *)
(* raises a TypeError, value the table it returns otherwise.               *)
(***************************************************************************)
SetOf(seq) == {seq[i] : i \in DOMAIN seq}

RECURSIVE songsByArtistFrom(_, _)
\* songs.reduce((acc, s) => { acc[s.Artist] = acc[s.Artist] || [];
\*                            acc[s.Artist].push(s.Album); return acc; }, {})
\* For an artist named like a property of Object.prototype, acc[s.Artist] is
\* the inherited value, which is truthy and has no push.
songsByArtistFrom(acc, records) ==
    IF records = <<>> \/ acc.threw THEN acc
    ELSE LET artist == Head(records).Artist
             album == Head(records).Album
         IN  IF artist \in OwnKeys(acc.value)
             THEN songsByArtistFrom(
                      [acc EXCEPT !.value[OwnIndex(acc.value, artist)][2] = Append(@, album)],
                      Tail(records))
             ELSE IF artist \in DOMAIN ProtoProps
                  THEN [acc EXCEPT !.threw = TRUE]
                  ELSE songsByArtistFrom(
                           [acc EXCEPT !.value = Append(@, <<artist, <<album>>>>)],
                           Tail(records))

\* for (const artist in songsByArtist)
\*     albumCount[artist] = new Set(songsByArtist[artist]).size
countAlbumsByArtist(records) ==
    LET songsByArtist == songsByArtistFrom([threw |-> FALSE, value |-> EmptyObject], records)
        keys == ObjectEntries(songsByArtist.value)
    IN  IF songsByArtist.threw THEN [threw |-> TRUE, value |-> EmptyObject]
        ELSE [threw |-> FALSE,
              value |-> [i \in DOMAIN keys |->
                            <<keys[i][1], Num(Cardinality(SetOf(keys[i][2])))>>]]

RECURSIVE artistStatsFrom(_, _)
\* the context SongManager:
\* songs.forEach(s => { if (!artistStats[s.Artist])
\*                          artistStats[s.Artist] = { songs: 0, albums: new Set() };
\*                      artistStats[s.Artist].songs += 1;
\*                      artistStats[s.Artist].albums.add(s.Album); })
\* For an artist named like a property of Object.prototype the inherited
\* value is used: it has no albums, so albums.add raises.
artistStatsFrom(acc, records) ==
    IF records = <<>> \/ acc.threw THEN acc
    ELSE LET artist == Head(records).Artist
             album == Head(records).Album
             created == IF artist \in OwnKeys(acc.value) THEN acc.value
                        ELSE Append(acc.value, <<artist, [songs |-> 0, albums |-> {}]>>)
         IN  IF artist \notin OwnKeys(acc.value) /\ artist \in DOMAIN ProtoProps
             THEN [acc EXCEPT !.threw = TRUE]
             ELSE artistStatsFrom(
                      [acc EXCEPT !.value =
                          [created EXCEPT ![OwnIndex(created, artist)][2] =
                              [songs |-> @.songs + 1, albums |-> @.albums \cup {album}]]],
                      Tail(records))

\* Object.entries(artistStats).map(([artist, data]) =>
\*     ({ artist, songs: data.songs, albums: data.albums.size }))
artistStatsCount(records) ==
    LET artistStats == artistStatsFrom([threw |-> FALSE, value |-> EmptyObject], records)
        keys == ObjectEntries(artistStats.value)
    IN  IF artistStats.threw THEN [threw |-> TRUE, value |-> EmptyObject]
        ELSE [threw |-> FALSE,
              value |-> [i \in DOMAIN keys |->
                            <<keys[i][1], Num(Cardinality(keys[i][2].albums))>>]]

(***************************************************************************)
(* Charts: what each chart component computes from its props before it     *)
(* renders (colours and running offsets are left out).                     *)
(***************************************************************************)
DefaultMaxItems == 5

DonutMaxItems == 5

DonutTopThree == 3

toSlices(entries) == [i \in DOMAIN entries |-> [key |-> entries[i][1], count |-> entries[i][2]]]

\* a / b for two counts: a quotient, Infinity or NaN
Divide(a, b) ==
    IF ToNum(a).t # "number" \/ ToNum(b).t # "number" THEN [t |-> "NaN", n |-> 0, d |-> 0]
    ELSE IF b.n # 0 THEN [t |-> "quotient", n |-> a.n, d |-> b.n]
    ELSE IF a.n = 0 THEN [t |-> "NaN", n |-> 0, d |-> 0]
    ELSE [t |-> "Infinity", n |-> 0, d |-> 0]

\* sortedData.map(([key, count]) => ({ key, count, ... count / total ... }))
toShares(entries, total) ==
    [i \in DOMAIN entries |->
        [key |-> entries[i][1], count |-> entries[i][2],
         share |-> Divide(entries[i][2], Num(total))]]

\* BarChart: the rows shown
BarChart(data, maxItems) == toSlices(sortedData(data, maxItems))

\* the mutation of pushesOther: remaining >= 0
notNegative(remaining) == ToNum(remaining).t = "number" /\ remaining.n >= 0

\* if (remaining > 0)
pushesOther(remaining) == GtZero(remaining)

\* DonutChart: the slices with the "Other" slice pushed when remaining > 0
DonutChart(data, total, maxItems) ==
    LET shown == sortedData(data, maxItems)
        remaining == Minus(Num(total), sumCounts(Num(0), shown))
        slices == toShares(shown, total)
    IN  [slices |-> IF pushesOther(remaining)
                    THEN Append(slices, [key |-> "Other", count |-> remaining,
                                         share |-> Divide(remaining, Num(total))])
                    ELSE slices,
         remaining |-> remaining]

\* DonutChart (components/SongManager.tsx):
\* legendSlices = slices.filter(s => s.key !== 'Other')
legendSlices(slices) == SelectSeq(slices, LAMBDA s : s.key # "Other")

\* the legend lines of a donut: the top-5 donut lists legendSlices and, when
\* remaining > 0, a separate "Other Artists" line; the top-3 donut of the
\* inline copy lists every slice
DonutLegend(slices, remaining, filtered) ==
    [lines |-> IF filtered THEN legendSlices(slices) ELSE slices,
     otherLine |-> filtered /\ GtZero(remaining)]

\* StackedBarChart: the segments (none when sortedData is empty: "No data.")
StackedBarChart(data, maxItems, total) == toShares(sortedData(data, maxItems), total)

(***************************************************************************)
(* SongManager: the aggregates one render derives from the record set.     *)
(* Variants: "redux" (components/SongManager.tsx, first component),        *)
(* "inline" (the copy with inline reduce calls and a top-3 donut) and      *)
(* "context" (the context-based copy, which draws no charts).              *)
(***************************************************************************)
Variants == {"redux", "inline", "context"}

NotRendered == [rendered |-> FALSE, crashed |-> FALSE]

NotDrawn == [drawn |-> FALSE]

\* the albums-per-artist table of the variant (the inline copy has none)
albumsPerArtist(records, variant) ==
    CASE variant = "redux" -> countAlbumsByArtist(records)
      [] variant = "context" -> artistStatsCount(records)
      [] OTHER -> [threw |-> FALSE, value |-> EmptyObject]

\* a render in which an aggregate throws shows nothing: no error boundary
\* catches, and React unmounts the page
Crashed(records, variant) ==
    [rendered |-> FALSE, crashed |-> TRUE, variant |-> variant, records |-> records]

Dashboard(records, variant) ==
    LET genreCount == countByField(records, "Genre")
        artistSongCount == countByField(records, "Artist")
        albumSongCount == countByField(records, "Album")
        artistAlbumCount == albumsPerArtist(records, variant)
        totalSongs == Len(records)
        hasCharts == variant # "context"
    IN  IF artistAlbumCount.threw THEN Crashed(records, variant)
        ELSE
        [rendered |-> TRUE,
         crashed |-> FALSE,
         variant |-> variant,
         records |-> records,
         totalSongs |-> totalSongs,
         genreCount |-> genreCount,
         artistSongCount |-> artistSongCount,
         albumSongCount |-> albumSongCount,
         artistAlbumCount |-> artistAlbumCount.value,
         totalArtists |-> uniqueCount(records, "Artist"),
         totalAlbums |-> uniqueCount(records, "Album"),
         mostCommonGenre |-> mostCommonGenre(genreCount),
         genreBars |-> IF hasCharts THEN BarChart(genreCount, DefaultMaxItems) ELSE <<>>,
         albumBars |-> IF variant = "redux"
                       THEN BarChart(artistAlbumCount.value, DefaultMaxItems)
                       ELSE <<>>,
         donut |-> IF hasCharts
                   THEN DonutChart(artistSongCount, totalSongs,
                                   IF variant = "redux" THEN DonutMaxItems ELSE DonutTopThree)
                   ELSE [slices |-> <<>>, remaining |-> Num(0)],
         segments |-> IF hasCharts
                      THEN StackedBarChart(albumSongCount, DefaultMaxItems, totalSongs)
                      ELSE <<>>]

\* the dependency list [songs] of the useMemo hooks (the stats memo lists
\* totalSongs and genreCount as well, which follow from songs)
Deps(ref, records) == [songs |-> ref, totalSongs |-> Len(records)]

NoMemo == [deps |-> Deps(0, <<>>), ref |-> 0]

\* the mutation of depsChanged: a memo that looks at the length only
lengthChanged(prevDeps, nextDeps) == prevDeps.totalSongs # nextDeps.totalSongs

\* React compares each dependency with Object.is: an array by identity
depsChanged(prevDeps, nextDeps) == prevDeps.songs # nextDeps.songs

(***************************************************************************)
(* The song list and its filter.  Field values are strings; Chars spells   *)
(* out the characters of the strings the filter is tried on.               *)
(***************************************************************************)
Chars ==
    ("" :> <<>>) @@ ("a" :> <<"a">>) @@ ("B" :> <<"B">>) @@ ("ab" :> <<"a", "b">>) @@
    ("Ab" :> <<"A", "b">>) @@ ("aB" :> <<"a", "B">>) @@ ("ba" :> <<"b", "a">>) @@
    ("Cab" :> <<"C", "a", "b">>) @@ ("c" :> <<"c">>)

Lower == ("A" :> "a") @@ ("B" :> "b") @@ ("C" :> "c")

\* the mutation of toLowerCase: the text is compared as typed
keepCase(text) == text

\* String.prototype.toLowerCase
toLowerCase(text) ==
    [i \in DOMAIN text |-> IF text[i] \in DOMAIN Lower THEN Lower[text[i]] ELSE text[i]]

\* String.prototype.includes (every string includes the empty string)
includes(value, text) ==
    \/ text = <<>>
    \/ \E k \in 0..(Len(value) - Len(text)) : SubSeq(value, k + 1, k + Len(text)) = text

\* songs.filter(s => s[filterField].toLowerCase().includes(filterText.toLowerCase()))
filteredSongs(records, filterField, filterText) ==
    LET text == toLowerCase(Chars[filterText]) IN
    SelectSeq(records, LAMBDA s : includes(toLowerCase(Chars[s[filterField]]), text))

\* useState(""), useState("Title")
NoFilter == [filterField |-> "Title", filterText |-> "", shown |-> <<>>]

\* one render of SongManager: the first one, or a later one of the same
\* component.  The redux and the context component keep their aggregates in
\* useMemo and recompute them when the dependencies changed; the inline
\* copy computes them in every render.
Render(variant) ==
    /\ ~view.crashed
    /\ view.rendered => view.variant = variant
    /\ LET deps == Deps(songsRef, songs)
           reuse == view.rendered /\ variant # "inline" /\ ~depsChanged(memo.deps, deps)
       IN  /\ view' = IF reuse THEN view ELSE Dashboard(songs, variant)
           /\ memo' = [deps |-> IF reuse THEN memo.deps ELSE deps, ref |-> songsRef]
    /\ songList' = [songList EXCEPT !.shown = IF view'.crashed THEN <<>>
                                      ELSE filteredSongs(songs, songList.filterField,
                                                         songList.filterText)]
    /\ UNCHANGED <<sliceVars, sagaVars, serverVars, form, chart, deleteSongId>>

\* a change of the filter state, and the render that follows
SetFilter(filterField, filterText) ==
    /\ view.rendered
    /\ ~view.crashed
    /\ LET deps == Deps(songsRef, songs)
           reuse == view.variant # "inline" /\ ~depsChanged(memo.deps, deps)
       IN  /\ view' = IF reuse THEN view ELSE Dashboard(songs, view.variant)
           /\ memo' = [deps |-> IF reuse THEN memo.deps ELSE deps, ref |-> songsRef]
    /\ songList' = [filterField |-> filterField, filterText |-> filterText,
                shown |-> IF view'.crashed THEN <<>>
                          ELSE filteredSongs(songs, filterField, filterText)]
    /\ UNCHANGED <<sliceVars, sagaVars, serverVars, form, chart, deleteSongId>>

\* the user picks a field in the select: setFilterField(e.target.value)
SetFilterField(filterField) == SetFilter(filterField, songList.filterText)

\* the user types into the search box: setFilterText(e.target.value)
SetFilterText(filterText) == SetFilter(songList.filterField, filterText)

(***************************************************************************)
(* Values carried by actions and HTTP bodies                               *)
(***************************************************************************)
\* an absent object
Null == [null |-> TRUE]

\* a value carried by an action or an HTTP body: null, a string, an object
\* or an array (t is the type; the fields of the other types are at rest)
JsonNull == [t |-> "null", s |-> "", o |-> Null, l |-> <<>>]

JsonString(s) == [t |-> "string", s |-> s, o |-> Null, l |-> <<>>]

JsonObject(o) == [t |-> "object", s |-> "", o |-> o, l |-> <<>>]

JsonArray(l) == [t |-> "array", s |-> "", o |-> Null, l |-> l]

(***************************************************************************)
(* The redux slice "songs".  Each reducer maps a state                     *)
(* [songs, loading, error] to the next one.                                *)
(***************************************************************************)
Song(id, title, artist, album, genre) ==
    [_id |-> id, Title |-> title, Artist |-> artist, Album |-> album, Genre |-> genre]

initialState == [songs |-> <<>>, loading |-> FALSE, error |-> JsonNull]

\* the mutation of requestReducer: the list is emptied while the call runs
requestClearsSongs(state) ==
    [state EXCEPT !.loading = TRUE, !.error = JsonNull, !.songs = <<>>]

\* every *Request reducer
requestReducer(state) == [state EXCEPT !.loading = TRUE, !.error = JsonNull]

\* every *Failure reducer
failureReducer(state, payload) == [state EXCEPT !.loading = FALSE, !.error = payload]

fetchSongsSuccess(state, payload) ==
    [state EXCEPT !.songs = payload.l, !.loading = FALSE]

addSongSuccess(state, payload) ==
    [state EXCEPT !.songs = Append(state.songs, payload.o), !.loading = FALSE]

deleteSongSuccess(state, payload) ==
    [state EXCEPT !.songs = SelectSeq(state.songs, LAMBDA s : s._id # payload.s),
                  !.loading = FALSE]

\* state.songs.findIndex((s) => s._id === id): zero-based, -1 when absent
findIndex(list, id) ==
    IF \E i \in DOMAIN list : list[i]._id = id
    THEN (CHOOSE i \in DOMAIN list :
              list[i]._id = id /\ \A j \in 1..(i - 1) : list[j]._id # id) - 1
    ELSE -1

\* reading action.payload._id of a null payload is a TypeError
updateSongSuccessThrows(payload) == payload.t = "null"

updateSongSuccess(state, payload) ==
    LET index == findIndex(state.songs, payload.o._id) IN
    [state EXCEPT !.songs = IF index # -1 THEN [@ EXCEPT ![index + 1] = payload.o] ELSE @,
                  !.loading = FALSE]

RequestTypes == {"fetchSongsRequest", "addSongRequest", "deleteSongRequest",
                 "updateSongRequest"}

FailureTypes == {"fetchSongsFailure", "addSongFailure", "deleteSongFailure",
                 "updateSongFailure"}

Action(type, payload) == [type |-> type, payload |-> payload]

\* the slice reducer: the next state, and whether the case reducer threw (the
\* draft is then discarded and the state stays as it was)
reducer(state, action) ==
    CASE action.type \in RequestTypes -> [state |-> requestReducer(state), threw |-> FALSE]
      [] action.type \in FailureTypes ->
             [state |-> failureReducer(state, action.payload), threw |-> FALSE]
      [] action.type = "fetchSongsSuccess" ->
             [state |-> fetchSongsSuccess(state, action.payload), threw |-> FALSE]
      [] action.type = "addSongSuccess" ->
             [state |-> addSongSuccess(state, action.payload), threw |-> FALSE]
      [] action.type = "deleteSongSuccess" ->
             [state |-> deleteSongSuccess(state, action.payload), threw |-> FALSE]
      [] action.type = "updateSongSuccess" ->
             IF updateSongSuccessThrows(action.payload)
             THEN [state |-> state, threw |-> TRUE]
             ELSE [state |-> updateSongSuccess(state, action.payload), threw |-> FALSE]

sliceState == [songs |-> songs, loading |-> loading, error |-> error]

\* whether the case reducer writes state.songs: immer then publishes a new
\* array, and otherwise keeps the array of the previous state
writesSongs(state, action) ==
    CASE action.type \in {"fetchSongsSuccess", "addSongSuccess", "deleteSongSuccess"} -> TRUE
      [] action.type = "updateSongSuccess" ->
             /\ ~updateSongSuccessThrows(action.payload)
             /\ findIndex(state.songs, action.payload.o._id) # -1
      [] OTHER -> FALSE

\* the identity of a new array: any that no hook of the page still holds
freshRef == CHOOSE r \in 0..2 : view.rendered => r \notin {memo.ref, memo.deps.songs}

\* store.dispatch(action), as far as the slice is concerned
Dispatch(action) ==
    LET r == reducer(sliceState, action) IN
    /\ songs' = r.state.songs
    /\ loading' = r.state.loading
    /\ error' = r.state.error
    /\ songsRef' = IF writesSongs(sliceState, action) THEN freshRef ELSE songsRef
    /\ lastAction' = [action |-> action.type, payload |-> action.payload, threw |-> r.threw]

(***************************************************************************)
(* The backend (express routes over the Song collection).  Each route      *)
(* returns the collection after the request and the response sent.         *)
(***************************************************************************)
SongFields == {"Title", "Artist", "Album", "Genre"}

Response(status, data) == [status |-> status, data |-> data]

\* every route's catch: res.status(500).json({ error: "Server error" })
serverError(docs) ==
    [db |-> docs, response |-> Response(500, JsonObject([error |-> "Server error"]))]

\* songSchema: the four fields are required (an empty string fails "required")
schemaValid(body) == \A f \in SongFields : body[f] # ""

\* Song.findById: the document's position in the collection, 0 when absent
findById(docs, id) ==
    IF \E i \in DOMAIN docs : docs[i]._id = id
    THEN CHOOSE i \in DOMAIN docs : docs[i]._id = id
    ELSE 0

\* app.get("/songs")
getSongs(docs) == [db |-> docs, response |-> Response(200, JsonArray(docs))]

\* the mutation of postSong: the identifier of the first document is used again
postSongReusingId(docs, id, body) ==
    LET saved == Song(IF docs = <<>> THEN id ELSE docs[1]._id,
                      body.Title, body.Artist, body.Album, body.Genre) IN
    [db |-> Append(docs, saved), response |-> Response(200, JsonObject(saved))]

\* app.post("/songs"): new Song(req.body).save(), 500 when validation fails
postSong(docs, id, body) ==
    IF schemaValid(body)
    THEN LET saved == Song(id, body.Title, body.Artist, body.Album, body.Genre) IN
         [db |-> Append(docs, saved), response |-> Response(200, JsonObject(saved))]
    ELSE serverError(docs)

\* the mutation of deleteSong: 404 when no document has the id
deleteSongIfFound(docs, id) ==
    IF findById(docs, id) = 0
    THEN [db |-> docs, response |-> Response(404, JsonObject([error |-> "Song not found"]))]
    ELSE [db |-> SelectSeq(docs, LAMBDA d : d._id # id),
          response |-> Response(200, JsonObject([message |-> "Song deleted", id |-> id]))]

\* app.delete("/songs/:id"): Song.findByIdAndDelete(id), acknowledged either way
deleteSong(docs, id) ==
    [db |-> SelectSeq(docs, LAMBDA d : d._id # id),
     response |-> Response(200, JsonObject([message |-> "Song deleted", id |-> id]))]

\* app.put("/songs/:id"): Song.findByIdAndUpdate(id, req.body, { new: true });
\* no validators run, and the result is null when no document has the id
putSong(docs, id, body) ==
    LET i == findById(docs, id) IN
    IF i = 0 THEN [db |-> docs, response |-> Response(200, JsonNull)]
    ELSE LET updated == Song(id, body.Title, body.Artist, body.Album, body.Genre) IN
         [db |-> [docs EXCEPT ![i] = updated], response |-> Response(200, JsonObject(updated))]

(***************************************************************************)
(* Sagas.  takeEvery forks one task per request action; a task sits in     *)
(* "sent" until the backend has handled its HTTP request and in "answered" *)
(* until the response reaches the saga.  Requests and responses of         *)
(* different tasks travel independently, so either may overtake another.   *)
(***************************************************************************)
MaxInFlight == 2

MaxDocs == 1

NoResponse == Response(0, JsonNull)

Task(kind, payload) ==
    [kind |-> kind, payload |-> payload, st |-> "sent", response |-> NoResponse]

Remove(seq, i) == SubSeq(seq, 1, i - 1) \o SubSeq(seq, i + 1, Len(seq))

\* a request action reaches the store: the reducer runs, then the watcher of
\* a running rootSaga forks the worker saga, which issues its HTTP call
DispatchRequest(type, kind, payload) ==
    /\ Len(tasks) < MaxInFlight
    /\ Dispatch(Action(type, payload))
    /\ tasks' = IF sagaAlive THEN Append(tasks, Task(kind, payload)) ELSE tasks
    /\ UNCHANGED <<sagaAlive, serverVars, pageVars, form, chart>>

\* useEffect(() => { dispatch(fetchSongsRequest()); }, [dispatch])
Mount ==
    /\ ~mounted
    /\ mounted' = TRUE
    /\ DispatchRequest("fetchSongsRequest", "fetch", JsonNull)
    /\ UNCHANGED deleteSongId

\* the values a user saves from the form
FormSongs ==
    { [Title |-> "Imagine", Artist |-> "John Lennon", Album |-> "Imagine", Genre |-> "Pop"],
      [Title |-> "Style", Artist |-> "Taylor Swift", Album |-> "1989", Genre |-> "Pop"] }

\* handleSave: dispatch(addSongRequest(newSong))
HandleSave(newSong) ==
    /\ mounted
    /\ nextId <= MaxDocs
    /\ DispatchRequest("addSongRequest", "add", JsonObject(newSong))
    /\ UNCHANGED <<mounted, deleteSongId>>

\* handleUpdate: dispatch(updateSongRequest({ ...songToEdit, ...song }))
HandleUpdate(i, edited) ==
    /\ mounted
    /\ i \in DOMAIN songs
    /\ DispatchRequest("updateSongRequest", "update",
                       JsonObject(Song(songs[i]._id, edited.Title, edited.Artist,
                                       edited.Album, edited.Genre)))
    /\ UNCHANGED <<mounted, deleteSongId>>

\* Delete on a listed song, then Yes: dispatch(deleteSongRequest(deleteSongId))
ConfirmDelete(i) ==
    /\ mounted
    /\ i \in DOMAIN songs
    /\ DispatchRequest("deleteSongRequest", "delete", JsonString(songs[i]._id))
    /\ UNCHANGED <<mounted, deleteSongId>>

\* the mutation of dialogShown: the dialog is on the page whatever the state
dialogAlwaysShown(id) == TRUE

\* {deleteSongId && ( ...the confirmation dialog... )}
dialogShown(id) == Truthy(id)

\* Delete on a listed song: setDeleteSongId(song._id ?? null).  The dialog
\* covers the page, so the list can be clicked only while it is closed.
PressDelete(i) ==
    /\ mounted
    /\ i \in DOMAIN songs
    /\ ~dialogShown(deleteSongId)
    /\ deleteSongId' = JsonString(songs[i]._id)
    /\ UNCHANGED <<sliceVars, sagaVars, serverVars, pageVars, form, chart>>

\* Yes in the dialog: dispatch(deleteSongRequest(deleteSongId)); setDeleteSongId(null)
Yes ==
    /\ dialogShown(deleteSongId)
    /\ DispatchRequest("deleteSongRequest", "delete", deleteSongId)
    /\ deleteSongId' = JsonNull
    /\ UNCHANGED mounted

\* No in the dialog: setDeleteSongId(null)
No ==
    /\ dialogShown(deleteSongId)
    /\ deleteSongId' = JsonNull
    /\ UNCHANGED <<sliceVars, sagaVars, serverVars, pageVars, form, chart>>

\* the backend handles the HTTP request of task i; dbThrows is whether the
\* mongoose call rejects (the database cannot be reached)
Serve(i, dbThrows) ==
    /\ i \in DOMAIN tasks
    /\ tasks[i].st = "sent"
    /\ LET task == tasks[i]
           out == CASE dbThrows -> serverError(db)
                    [] task.kind = "fetch" -> getSongs(db)
                    [] task.kind = "add" -> postSong(db, ToString(nextId), task.payload.o)
                    [] task.kind = "delete" -> deleteSong(db, task.payload.s)
                    [] task.kind = "update" ->
                           putSong(db, task.payload.o._id, task.payload.o)
       IN  /\ db' = out.db
           /\ nextId' = IF Len(out.db) > Len(db) THEN nextId + 1 ELSE nextId
           /\ tasks' = [tasks EXCEPT ![i].st = "answered", ![i].response = out.response]
    /\ UNCHANGED <<sliceVars, mounted, sagaAlive, pageVars, form, chart, deleteSongId>>

\* the action a worker saga puts once its call has returned
successAction(task) ==
    CASE task.kind = "fetch" -> Action("fetchSongsSuccess", task.response.data)
      [] task.kind = "add" -> Action("addSongSuccess", task.response.data)
      [] task.kind = "delete" -> Action("deleteSongSuccess", task.payload)
      [] task.kind = "update" -> Action("updateSongSuccess", task.response.data)

\* the response of task i reaches its saga.  A 2xx response resumes the
\* saga, which puts its success action; axios rejects on any other status.
\* No saga catches: an error thrown by the call or by the reducer inside put
\* ends the task, its watcher and rootSaga, which cancels every other task.
Deliver(i) ==
    /\ i \in DOMAIN tasks
    /\ tasks[i].st = "answered"
    /\ sagaAlive
    /\ IF tasks[i].response.status = 200
       THEN /\ Dispatch(successAction(tasks[i]))
            /\ sagaAlive' = ~lastAction'.threw
            /\ tasks' = IF lastAction'.threw THEN <<>> ELSE Remove(tasks, i)
       ELSE /\ sagaAlive' = FALSE
            /\ tasks' = <<>>
            /\ UNCHANGED sliceVars
    /\ UNCHANGED <<mounted, serverVars, pageVars, form, chart, deleteSongId>>

(***************************************************************************)
(* SongForm.  Three implementations: "SongForm" and "SongForm2" (the first *)
(* and second component of components/SongForm.tsx) and "context" (the     *)
(* form of the context-based SongManager).  Input text is a sequence of    *)
(* one-character strings.                                                  *)
(***************************************************************************)
FormImpls == {"SongForm", "SongForm2", "context"}

\* const fields = ["Title", "Artist", "Album", "Genre"]
fields == <<"Title", "Artist", "Album", "Genre">>

Letters ==
    {"a", "b", "c", "d", "e", "f", "g", "h", "i", "j", "k", "l", "m", "n", "o", "p", "q",
     "r", "s", "t", "u", "v", "w", "x", "y", "z", "A", "B", "C", "D", "E", "F", "G", "H",
     "I", "J", "K", "L", "M", "N", "O", "P", "Q", "R", "S", "T", "U", "V", "W", "X", "Y",
     "Z"}

Digits == {"0", "1", "2", "3", "4", "5", "6", "7", "8", "9"}

\* \s
Whitespace == {" ", "\t", "\n", "\r"}

RECURSIVE trimStart(_)
trimStart(value) ==
    IF value # <<>> /\ Head(value) \in Whitespace THEN trimStart(Tail(value)) ELSE value

RECURSIVE trimEnd(_)
trimEnd(value) ==
    IF value # <<>> /\ value[Len(value)] \in Whitespace
    THEN trimEnd(SubSeq(value, 1, Len(value) - 1))
    ELSE value

\* value.trim()
trim(value) == trimEnd(trimStart(value))

\* /[^a-zA-Z0-9\s]/.test(value)
testNotAlphanumeric(value) ==
    \E i \in DOMAIN value : value[i] \notin Letters \cup Digits \cup Whitespace

\* /[^a-zA-Z\s]/.test(value)
testNotAlphabetic(value) ==
    \E i \in DOMAIN value : value[i] \notin Letters \cup Whitespace

\* the error validateField computes for (name, value); "" is no error
validateFieldError(impl, name, value) ==
    IF trim(value) = <<>> THEN name \o " is required"
    ELSE IF name \in {"Title", "Artist"}
         THEN IF impl = "SongForm2"
              THEN IF testNotAlphabetic(value)
                   THEN name \o " can only contain letters and spaces"
                   ELSE ""
              ELSE IF testNotAlphanumeric(value)
                   THEN name \o " can only contain letters, numbers, and spaces"
                   ELSE ""
         ELSE ""

\* setErrors(prev => ({ ...prev, [name]: error }))
setError(errors, name, err) ==
    [f \in DOMAIN errors \cup {name} |-> IF f = name THEN err ELSE errors[f]]

\* validateField: the errors map after the call, and the value returned
validateField(impl, errors, name, value) ==
    LET err == validateFieldError(impl, name, value) IN
    [errors |-> setError(errors, name, err), ok |-> err = ""]

RECURSIVE validateFrom(_, _, _, _)
\* fields.every(f => validateField(f, song[f])) and the && chain of the
\* context form, from field number i on: both stop at the first field whose
\* validation returns false
validateFrom(impl, errors, song, i) ==
    IF i > Len(fields) THEN [errors |-> errors, ok |-> TRUE]
    ELSE LET r == validateField(impl, errors, fields[i], song[fields[i]]) IN
         IF r.ok THEN validateFrom(impl, r.errors, song, i + 1)
         ELSE [errors |-> r.errors, ok |-> FALSE]

EmptyText == <<>>

initialSongState ==
    [Title |-> EmptyText, Artist |-> EmptyText, Album |-> EmptyText, Genre |-> EmptyText]

NoErrors == [f \in {} |-> ""]

NoCall == [fn |-> "none"]

ClosedForm == [open |-> FALSE, called |-> NoCall]

\* the texts typed into an input
FormInputs ==
    { <<>>,
      <<" ">>,
      <<"S", "o", "n", "g">>,
      <<"S", "o", "n", "g", " ", "1">>,
      <<"S", "o", "n", "g", "#", "1">> }

\* the song an edit form is opened on
EditSongs ==
    { [_id |-> "1", Title |-> <<"S", "o", "n", "g", " ", "1">>, Artist |-> <<"S", "o", "n", "g">>,
       Album |-> <<"S", "o", "n", "g", "#", "1">>, Genre |-> <<"S", "o", "n", "g">>] }

\* the form is mounted: useState initial values, then the songToEdit effect
OpenForm(impl, songToEdit, isLoading) ==
    /\ ~form.open
    /\ isLoading => impl = "context"
    /\ form' = [open |-> TRUE,
                impl |-> impl,
                songToEdit |-> songToEdit,
                isLoading |-> isLoading,
                song |-> IF songToEdit = Null THEN initialSongState
                         ELSE [f \in SongFields |-> songToEdit[f]],
                errors |-> NoErrors,
                called |-> NoCall,
                lastEvent |-> [type |-> "open"]]
    /\ UNCHANGED <<sliceVars, sagaVars, serverVars, pageVars, chart, deleteSongId>>

\* handleChange: the input called name now holds value
handleChange(name, value) ==
    /\ form.open
    /\ form' = [form EXCEPT
                  !.song[name] = value,
                  !.errors = validateField(form.impl, form.errors, name, value).errors,
                  !.lastEvent = [type |-> "change", name |-> name]]
    /\ UNCHANGED <<sliceVars, sagaVars, serverVars, pageVars, chart, deleteSongId>>

\* the mutation of handleSubmit: the result of the validation is not looked at
handleSubmitUnchecked ==
    /\ form.open
    /\ LET r == validateFrom(form.impl, form.errors, form.song, 1)
       IN  form' = [form EXCEPT
                      !.errors = r.errors,
                      !.called = IF form.songToEdit # Null
                                 THEN [fn |-> "onUpdate", _id |-> form.songToEdit._id,
                                       song |-> form.song]
                                 ELSE [fn |-> "onSave", song |-> form.song],
                      !.song = initialSongState,
                      !.open = FALSE,
                      !.lastEvent = [type |-> "submit", ok |-> TRUE]]
    /\ UNCHANGED <<sliceVars, sagaVars, serverVars, pageVars, chart, deleteSongId>>

\* handleSubmit
handleSubmit ==
    /\ form.open
    /\ LET r == validateFrom(form.impl, form.errors, form.song, 1)
       IN  IF ~r.ok \/ (form.impl = "context" /\ form.isLoading)
           THEN form' = [form EXCEPT !.errors = r.errors,
                                     !.lastEvent = [type |-> "submit", ok |-> FALSE]]
           ELSE form' = [form EXCEPT
                           !.errors = r.errors,
                           !.called = IF form.songToEdit # Null
                                      THEN [fn |-> "onUpdate", _id |-> form.songToEdit._id,
                                            song |-> form.song]
                                      ELSE [fn |-> "onSave", song |-> form.song],
                           !.song = initialSongState,
                           !.open = FALSE,
                           !.lastEvent = [type |-> "submit", ok |-> TRUE]]
    /\ UNCHANGED <<sliceVars, sagaVars, serverVars, pageVars, chart, deleteSongId>>

\* Cancel: onClose
CancelForm ==
    /\ form.open
    /\ form' = [ClosedForm EXCEPT !.called = form.called]
    /\ UNCHANGED <<sliceVars, sagaVars, serverVars, pageVars, chart, deleteSongId>>

(***************************************************************************)
(* Record sets the dashboard is rendered from                              *)
(***************************************************************************)
\* the stored documents a record set is drawn from
SampleSongs ==
    { Song("1", "Bohemian Rhapsody", "Queen", "A Night at the Opera", "Rock"),
      Song("2", "Imagine", "John Lennon", "Imagine", "Pop"),
      Song("3", "Smells Like Teen Spirit", "Nirvana", "Nevermind", "Rock"),
      Song("4", "Style", "Taylor Swift", "1989", "Pop"),
      Song("5", "Lacrimosa", "constructor", "Requiem", ""),
      Song("6", "Hey You", "Other", "The Wall", "-"),
      Song("7", "Untitled", "Prince", "__proto__", "constructor"),
      Song("8", "Cool Cat", "Queen", "1989", "Rock") }

IsInjective(seq) == \A i, j \in DOMAIN seq : seq[i] = seq[j] => i = j

\* every ordering of up to MaxSongs distinct documents
RecordSets ==
    UNION {{rs \in [1..n -> SampleSongs] : IsInjective(rs)} : n \in 0..MaxSongs}

NoAction == [action |-> "@@INIT", payload |-> JsonNull, threw |-> FALSE]

\* the store and the page before anything has been dispatched
Idle ==
    /\ loading = initialState.loading
    /\ error = initialState.error
    /\ lastAction = NoAction
    /\ view = NotRendered
    /\ sagaAlive = TRUE
    /\ tasks = <<>>
    /\ nextId = 1
    /\ form = ClosedForm
    /\ chart = NotDrawn
    /\ songsRef = 0
    /\ memo = NoMemo
    /\ songList = NoFilter
    /\ deleteSongId = JsonNull

\* the page after a fetch has brought some record set into the store
InitAgg ==
    /\ Idle
    /\ songs \in RecordSets
    /\ db = songs
    /\ mounted = TRUE

NextAgg == \E variant \in Variants : Render(variant)

SpecAgg == InitAgg /\ [][NextAgg]_vars

(***************************************************************************)
(* The application: the redux SongManager over the sagas and the backend   *)
(***************************************************************************)
\* a document stored before the page is opened
SeedSong == Song("0", "Bohemian Rhapsody", "Queen", "A Night at the Opera", "Rock")

Init ==
    /\ Idle
    /\ songs = initialState.songs
    /\ db \in {<<>>, <<SeedSong>>}
    /\ mounted = FALSE

Next ==
    \/ Mount
    \/ \E newSong \in FormSongs : HandleSave(newSong)
    \/ \E i \in 1..(MaxDocs + MaxInFlight), edited \in FormSongs : HandleUpdate(i, edited)
    \/ \E i \in 1..(MaxDocs + MaxInFlight) : ConfirmDelete(i)
    \/ \E i \in 1..MaxInFlight, dbThrows \in BOOLEAN : Serve(i, dbThrows)
    \/ \E i \in 1..MaxInFlight : Deliver(i)

Spec == Init /\ [][Next]_vars

\* the application with the backend answering every request it was sent and
\* every response reaching its saga
SpecLive ==
    /\ Spec
    /\ WF_vars(\E i \in 1..MaxInFlight, dbThrows \in BOOLEAN : Serve(i, dbThrows))
    /\ WF_vars(\E i \in 1..MaxInFlight : Deliver(i))

(***************************************************************************)
(* The backend alone: HTTP clients send requests, the routes answer them   *)
(***************************************************************************)
MaxStored == 2

MaxRequests == 1

\* the identifiers clients name in a path ("9" is never assigned)
ServerIds == {"0", "1", "9"}

\* the bodies clients post: the form's songs, and one the schema rejects
ServerBodies ==
    FormSongs \cup {[Title |-> "Imagine", Artist |-> "John Lennon", Album |-> "Imagine",
                     Genre |-> ""]}

\* the POST requests sent and not yet handled
PendingPosts == Cardinality({j \in DOMAIN tasks : tasks[j].kind = "add" /\ tasks[j].st = "sent"})

\* a client sends an HTTP request (axios.get / post / delete / put)
Request(kind, payload) ==
    /\ Len(tasks) < MaxRequests
    /\ kind = "add" => nextId + PendingPosts <= MaxStored
    /\ tasks' = Append(tasks, Task(kind, payload))
    /\ UNCHANGED <<sliceVars, mounted, sagaAlive, serverVars, pageVars, form, chart, deleteSongId>>

\* the client takes the response of request i
Receive(i) ==
    /\ i \in DOMAIN tasks
    /\ tasks[i].st = "answered"
    /\ tasks' = Remove(tasks, i)
    /\ UNCHANGED <<sliceVars, mounted, sagaAlive, serverVars, pageVars, form, chart, deleteSongId>>

InitServer == Init

NextServer ==
    \/ Request("fetch", JsonNull)
    \/ \E body \in ServerBodies : Request("add", JsonObject(body))
    \/ \E id \in ServerIds : Request("delete", JsonString(id))
    \/ \E id \in ServerIds, body \in ServerBodies :
           Request("update",
                   JsonObject(Song(id, body.Title, body.Artist, body.Album, body.Genre)))
    \/ \E i \in 1..MaxRequests, dbThrows \in BOOLEAN : Serve(i, dbThrows)
    \/ \E i \in 1..MaxRequests : Receive(i)

SpecServer == InitServer /\ [][NextServer]_vars

(***************************************************************************)
(* The slice alone: any sequence of success and failure actions            *)
(***************************************************************************)
MaxLocal == 3

\* payloads of the success actions
PayloadSongs ==
    { Song(id, title, "Queen", "Jazz", "Rock") : id \in {"1", "2"}, title \in {"Jazz", "Mustapha"} }

PayloadIds == {"1", "2", "3"}

PayloadLists ==
    UNION {{l \in [1..n -> PayloadSongs] : IsInjective(l)} : n \in 0..2}

UpdatePayloads ==
    {JsonObject(s) : s \in PayloadSongs \cup {Song("3", "Bicycle Race", "Queen", "Jazz", "Rock")}}
        \cup {JsonNull}

\* the store receives an action
Reduce(action) ==
    /\ action.type = "addSongSuccess" => Len(songs) < MaxLocal
    /\ Dispatch(action)
    /\ UNCHANGED <<sagaVars, serverVars, pageVars, form, chart, deleteSongId>>

InitSlice ==
    /\ Idle
    /\ songs = initialState.songs
    /\ db = <<>>
    /\ mounted = FALSE

NextSlice ==
    \/ \E l \in PayloadLists : Reduce(Action("fetchSongsSuccess", JsonArray(l)))
    \/ \E s \in PayloadSongs : Reduce(Action("addSongSuccess", JsonObject(s)))
    \/ \E id \in PayloadIds : Reduce(Action("deleteSongSuccess", JsonString(id)))
    \/ \E p \in UpdatePayloads : Reduce(Action("updateSongSuccess", p))
    \/ \E type \in RequestTypes : Reduce(Action(type, JsonNull))
    \/ \E type \in FailureTypes : Reduce(Action(type, JsonString("Network Error")))

SpecSlice == InitSlice /\ [][NextSlice]_vars

(***************************************************************************)
(* The page over the slice: success actions arrive and the page re-renders *)
(***************************************************************************)
MaxPage == 2

PageSongs ==
    { Song(id, "Jazz", "Queen", "Jazz", genre) : id \in {"1", "2"}, genre \in {"Rock", "Pop"} }

PageLists ==
    UNION {{l \in [1..n -> PageSongs] : IsInjective(l)} : n \in 0..MaxPage}

\* a success action reaches the store
Success(action) ==
    /\ Reduce(action)
    /\ Len(songs') <= MaxPage

InitPage == InitSlice

NextPage ==
    \/ \E l \in PageLists : Success(Action("fetchSongsSuccess", JsonArray(l)))
    \/ \E s \in PageSongs : Success(Action("addSongSuccess", JsonObject(s)))
    \/ \E id \in {"1", "2"} : Success(Action("deleteSongSuccess", JsonString(id)))
    \/ \E s \in PageSongs : Success(Action("updateSongSuccess", JsonObject(s)))
    \/ \E variant \in {"redux", "inline"} : Render(variant)

SpecPage == InitPage /\ [][NextPage]_vars

(***************************************************************************)
(* The song list: a record set is on the page and the user filters it      *)
(***************************************************************************)
MaxListed == 3

FilterSongs ==
    { Song("1", "Ab", "ba", "Cab", "c"), Song("2", "aB", "Ab", "c", "Cab"),
      Song("3", "ba", "c", "Ab", "ab"), Song("4", "Cab", "Cab", "B", "a") }

InitFilter ==
    /\ Idle
    /\ songs \in UNION {{l \in [1..n -> FilterSongs] : IsInjective(l)} : n \in 0..MaxListed}
    /\ db = songs
    /\ mounted = TRUE

NextFilter ==
    \/ \E variant \in Variants : Render(variant)
    \/ \E filterField \in SongFields : SetFilterField(filterField)
    \/ \E filterText \in {"", "a", "B", "ab", "Ab", "ba", "c"} : SetFilterText(filterText)

SpecFilter == InitFilter /\ [][NextFilter]_vars

(***************************************************************************)
(* The delete dialog: the page is mounted on a store of some records and   *)
(* the user deletes them one confirmation at a time                        *)
(***************************************************************************)
MaxDeletable == 2

DeletableSongs ==
    { SeedSong, Song("1", "Imagine", "John Lennon", "Imagine", "Pop"),
      Song("2", "Style", "Taylor Swift", "1989", "Pop") }

InitDialog ==
    /\ Idle
    /\ songs = initialState.songs
    /\ db \in UNION {{l \in [1..n -> DeletableSongs] : IsInjective(l)} : n \in 0..MaxDeletable}
    /\ mounted = FALSE

NextDialog ==
    \/ Mount
    \/ \E i \in 1..MaxDeletable : PressDelete(i)
    \/ Yes
    \/ No
    \/ \E i \in 1..MaxInFlight, dbThrows \in BOOLEAN : Serve(i, dbThrows)
    \/ \E i \in 1..MaxInFlight : Deliver(i)

SpecDialog == InitDialog /\ [][NextDialog]_vars

(***************************************************************************)
(* The form alone                                                          *)
(***************************************************************************)
InitForm ==
    /\ Idle
    /\ songs = initialState.songs
    /\ db = <<>>
    /\ mounted = FALSE

NextForm ==
    \/ \E impl \in FormImpls, songToEdit \in EditSongs \cup {Null}, isLoading \in BOOLEAN :
           OpenForm(impl, songToEdit, isLoading)
    \/ \E name \in SongFields, value \in FormInputs : handleChange(name, value)
    \/ handleSubmit
    \/ CancelForm

SpecForm == InitForm /\ [][NextForm]_vars

(***************************************************************************)
(* The chart components alone, as functions of their props                 *)
(***************************************************************************)
MaxChartSongs == 4

MaxTotal == 4

MaxItemsProp == 3

ChartComponents == {"BarChart", "DonutChart", "DonutChartTopThree", "StackedBarChart"}

\* the frequency tables passed as data: those of every record set of up to
\* MaxChartSongs documents
ChartTables ==
    { countByField(rs, f) :
          rs \in UNION {{l \in [1..n -> SampleSongs] : IsInjective(l)} : n \in 0..MaxChartSongs},
          f \in {"Genre", "Artist", "Album"} }

\* the mutation of dataAfter: a sort applied to the table itself
sortedInPlace(data, maxItems) == SortDesc(ObjectEntries(data))

\* the table a chart leaves behind in its data prop: Object.entries(data)
\* builds a new array, sort reorders that array and slice copies from it,
\* so the table itself is never written
dataAfter(data, maxItems) == data

\* the component is called (again) with the props held in chart
Draw(component) ==
    /\ chart.drawn => chart.component = component
    /\ LET donut == DonutChart(chart.data, chart.total,
                               IF component = "DonutChart" THEN DonutMaxItems
                               ELSE DonutTopThree)
       IN  chart' = [chart EXCEPT
                       !.drawn = TRUE,
                       !.component = component,
                       !.data = dataAfter(chart.data, chart.maxItems),
                       !.remaining = IF component \in {"BarChart", "StackedBarChart"}
                                     THEN Num(0) ELSE donut.remaining,
                       !.shown =
                           CASE component = "BarChart" -> BarChart(chart.data, chart.maxItems)
                             [] component = "StackedBarChart" ->
                                    StackedBarChart(chart.data, chart.maxItems, chart.total)
                             [] OTHER -> donut.slices,
                       !.legend =
                           IF component \in {"BarChart", "StackedBarChart"}
                           THEN DonutLegend(<<>>, Num(0), FALSE)
                           ELSE DonutLegend(donut.slices, donut.remaining,
                                            component = "DonutChart")]
    /\ UNCHANGED <<sliceVars, sagaVars, serverVars, pageVars, form, deleteSongId>>

InitChart ==
    /\ songs = initialState.songs
    /\ loading = initialState.loading
    /\ error = initialState.error
    /\ lastAction = NoAction
    /\ view = NotRendered
    /\ mounted = FALSE
    /\ sagaAlive = TRUE
    /\ tasks = <<>>
    /\ db = <<>>
    /\ nextId = 1
    /\ form = ClosedForm
    /\ songsRef = 0
    /\ memo = NoMemo
    /\ songList = NoFilter
    /\ deleteSongId = JsonNull
    /\ \E data \in ChartTables, total \in 0..MaxTotal, maxItems \in 0..MaxItemsProp :
           chart = [drawn |-> FALSE, component |-> "", data |-> data, total |-> total,
                    maxItems |-> maxItems, shown |-> <<>>, remaining |-> Num(0),
                    legend |-> DonutLegend(<<>>, Num(0), FALSE)]

NextChart == \E component \in ChartComponents : Draw(component)

SpecChart == InitChart /\ [][NextChart]_vars

(***************************************************************************)
(* Claims about the aggregation (checked under SpecAgg)                    *)
(***************************************************************************)
TableFields == {"Genre", "Artist", "Album"}

\* the frequency table the last render built for a field
ViewTable(f) ==
    CASE f = "Genre" -> view.genreCount
      [] f = "Artist" -> view.artistSongCount
      [] f = "Album" -> view.albumSongCount

RECURSIVE sliceTotal(_, _)
\* the shown counts of a chart added up, left to right, as JavaScript adds them
sliceTotal(sum, slices) ==
    IF slices = <<>> THEN sum
    ELSE sliceTotal(Plus(sum, Head(slices).count), Tail(slices))

\* the table's counts are numbers that add up to the number of records
IsFrequencyTable(table) == sumCounts(Num(0), table) = Num(view.totalSongs)

\* position of the first record that holds value key in field f
FirstIndex(records, f, key) ==
    CHOOSE i \in DOMAIN records :
        /\ records[i][f] = key
        /\ \A j \in 1..(i - 1) : records[j][f] # key

\* rows ranked by non-increasing count, ties in first-encountered order
RankedByCountThenInsertion(rows, records, f) ==
    \A i, j \in DOMAIN rows :
        (i < j /\ rows[i].count.t = "number" /\ rows[j].count.t = "number") =>
            /\ rows[i].count.n >= rows[j].count.n
            /\ rows[i].count.n = rows[j].count.n =>
                   FirstIndex(records, f, rows[i].key) < FirstIndex(records, f, rows[j].key)

\* C1: for every record set and field, the counts of the frequency table
\* countByField builds sum to the number of records, and every distinct
\* field value present is a key of the table.
C1_CountsSumToRecordCount ==
    view.rendered =>
        \A f \in TableFields :
            /\ sumCounts(Num(0), ViewTable(f)) = Num(Len(songs))
            /\ \A i \in DOMAIN songs : songs[i][f] \in OwnKeys(ViewTable(f))

\* C2: the top-N rows of BarChart and StackedBarChart are ordered by
\* non-increasing count and, among equal counts, by the order in which the
\* values were first encountered in the record set, also when a key looks
\* like an integer.
C2_TopNTiesInInsertionOrder ==
    (view.rendered /\ view.variant # "context") =>
        /\ RankedByCountThenInsertion(view.genreBars, songs, "Genre")
        /\ RankedByCountThenInsertion(view.segments, songs, "Album")

\* C8: the unique-value count shown for Total Artists and Total Albums equals
\* the number of keys of the frequency table of the same field.
C8_UniqueCountIsKeyCount ==
    view.rendered =>
        /\ view.totalArtists = Cardinality(OwnKeys(view.artistSongCount))
        /\ view.totalAlbums = Cardinality(OwnKeys(view.albumSongCount))

\* C9: the Most Common Genre shown is the value of the first entry of the
\* top-1 ranking of the genre table, and "-" is shown exactly when the
\* table is empty.
C9_MostCommonIsTopOne ==
    view.rendered =>
        LET top == sortedData(view.genreCount, 1) IN
        /\ top # <<>> => view.mostCommonGenre = top[1][1]
        /\ view.mostCommonGenre = "-" <=> view.genreCount = EmptyObject

\* C10: in every share breakdown rendered (DonutChart slices, StackedBarChart
\* segments) the shown counts plus the count of "Other", if present, sum to
\* total, the number of records.
C10_BreakdownSumsToTotal ==
    (view.rendered /\ view.variant # "context") =>
        /\ IsFrequencyTable(view.artistSongCount) =>
               sliceTotal(Num(0), view.donut.slices) = Num(view.totalSongs)
        /\ (view.segments # <<>> /\ IsFrequencyTable(view.albumSongCount)) =>
               sliceTotal(Num(0), view.segments) = Num(view.totalSongs)

\* the page has been rendered, or has tried to
Attempted == view.rendered \/ view.crashed

\* C13: for every record set, the albums-per-artist table is returned (no
\* exception), its keys are exactly the distinct Artist values present, and
\* the value of each artist is the number of distinct Album values among
\* that artist's records, which is at least 1.
C13_AlbumsPerArtist ==
    (Attempted /\ view.variant \in {"redux", "context"}) =>
        /\ ~view.crashed
        /\ OwnKeys(view.artistAlbumCount) = {songs[i].Artist : i \in DOMAIN songs}
        /\ \A e \in SetOf(view.artistAlbumCount) :
               /\ e[2] = Num(Cardinality({songs[i].Album :
                                              i \in {j \in DOMAIN songs : songs[j].Artist = e[1]}}))
               /\ e[2].n >= 1

\* every count of the entries is a JavaScript number
NumericCounts(entries) == \A i \in DOMAIN entries : entries[i][2].t = "number"

\* every count of the slices is a JavaScript number
NumericSlices(slices) == \A i \in DOMAIN slices : slices[i].count.t = "number"

\* the four fields of every record are non-empty strings
NonEmptyFields(records) ==
    \A i \in DOMAIN records : \A f \in {"Title", "Artist", "Album", "Genre"} : records[i][f] # ""

\* C14: every aggregation operation is total: for every record set whose four
\* fields are non-empty strings (names such as "constructor" included) the
\* page is computed without an exception, and every count of the frequency
\* tables, of the albums-per-artist table and of the charts is a number.
C14_AggregationIsTotal ==
    (Attempted /\ NonEmptyFields(view.records)) =>
        /\ ~view.crashed
        /\ \A f \in TableFields : NumericCounts(ViewTable(f))
        /\ NumericCounts(view.artistAlbumCount)
        /\ NumericSlices(view.genreBars) /\ NumericSlices(view.albumBars)
        /\ NumericSlices(view.donut.slices) /\ NumericSlices(view.segments)

\* the last render of the page selected the array now in state.songs
Current == view.rendered /\ memo.ref = songsRef

\* C15: what the page shows corresponds to the current record set: once the
\* page has rendered the array now in state.songs, its frequency tables,
\* unique counts, most common genre and albums-per-artist table equal the
\* ones computed anew from state.songs.
C15_ViewsAreCurrent ==
    Current =>
        /\ view.totalSongs = Len(songs)
        /\ \A f \in TableFields : ViewTable(f) = countByField(songs, f)
        /\ view.totalArtists = uniqueCount(songs, "Artist")
        /\ view.totalAlbums = uniqueCount(songs, "Album")
        /\ view.mostCommonGenre = mostCommonGenre(countByField(songs, "Genre"))
        /\ view.artistAlbumCount = albumsPerArtist(songs, view.variant).value

\* the page rendered again after an update replaced a record in place
C15_RenderedAfterUpdate ==
    /\ Current
    /\ view.variant = "redux"
    /\ songsRef # 0
    /\ lastAction.action = "updateSongSuccess"
    /\ \E i \in DOMAIN songs : JsonObject(songs[i]) = lastAction.payload

(***************************************************************************)
(* Claims about the form (checked under SpecForm)                          *)
(***************************************************************************)
\* the error the specification gives for (name, value); "" is no error
specifiedError(name, value) ==
    IF trim(value) = <<>> THEN name \o " is required"
    ELSE IF name \in {"Title", "Artist"} /\ testNotAlphanumeric(value)
         THEN name \o " can only contain letters, numbers, and spaces"
         ELSE ""

\* C3: in every SongForm implementation, the error validateField records for
\* a field is "<field> is required" when the trimmed value is empty,
\* "<field> can only contain letters, numbers, and spaces" when the field is
\* Title or Artist and the value holds a character that is not a letter, a
\* digit or whitespace, and no error otherwise; so "Song 1" is a valid Title.
C3_ValidateFieldIsSpecified ==
    (form.open /\ form.lastEvent.type = "change") =>
        form.errors[form.lastEvent.name] =
            specifiedError(form.lastEvent.name, form.song[form.lastEvent.name])

\* C7: after the form is submitted, the errors map holds an entry for each of
\* Title, Artist, Album and Genre, and the entry is the error (or "") of the
\* field's current value, whether or not an earlier field failed.
C7_SubmitValidatesEveryField ==
    (form.open /\ form.lastEvent.type = "submit") =>
        \A f \in SongFields :
            /\ f \in DOMAIN form.errors
            /\ form.errors[f] = validateFieldError(form.impl, f, form.song[f])

(***************************************************************************)
(* Claims about the record set (checked under Spec and SpecSlice)          *)
(***************************************************************************)
Records(list) == {list[i] : i \in DOMAIN list}

Ids(list) == {list[i]._id : i \in DOMAIN list}

\* every request issued has completed successfully and none is in flight
Quiescent == mounted /\ sagaAlive /\ tasks = <<>> /\ lastAction.action # "@@INIT"

\* C4: once every issued request has completed successfully and none is in
\* flight, state.songs holds exactly the records of the remote store,
\* whatever the order in which the responses arrived.
C4_LocalConvergesToRemote ==
    Quiescent => Records(songs) = Records(db)

\* the identifier a replace or remove task was issued for
TaskId(task) == IF task.kind = "update" THEN task.payload.o._id ELSE task.payload.s

Mutations == {"addSongSuccess", "updateSongSuccess", "deleteSongSuccess"}

\* C6: applying addSongSuccess, updateSongSuccess or deleteSongSuccess a
\* second time in a row with the same payload leaves state.songs as the
\* first application left it.
C6_MutationsIdempotent ==
    [][(/\ lastAction'.action \in Mutations
        /\ lastAction.action = lastAction'.action
        /\ lastAction.payload = lastAction'.payload
        /\ ~lastAction'.threw)
           => songs' = songs]_vars

(***************************************************************************)
(* Claims about the chart components (checked under SpecChart)             *)
(***************************************************************************)
ShareBreakdowns == {"DonutChart", "DonutChartTopThree", "StackedBarChart"}

TopNCharts == {"BarChart", "StackedBarChart"}

\* C12: the rows BarChart and StackedBarChart take from a table with
\* maxItems = n are exactly min(n, number of keys) in number (none for an
\* empty table or n = 0, all of them when the table has at most n keys), and
\* each row is an entry of the table, no entry twice.
C12_TopNSize ==
    (chart.drawn /\ chart.component \in TopNCharts) =>
        LET keys == Cardinality({chart.data[j][1] : j \in DOMAIN chart.data}) IN
        /\ Len(chart.shown) = IF chart.maxItems < keys THEN chart.maxItems ELSE keys
        /\ \A i \in DOMAIN chart.shown :
               \E j \in DOMAIN chart.data :
                   chart.data[j] = <<chart.shown[i].key, chart.shown[i].count>>
        /\ \A i, j \in DOMAIN chart.shown :
               chart.shown[i].key = chart.shown[j].key => i = j

\* a table with more keys than maxItems > 0 has been cut to maxItems rows
C12_Truncated ==
    /\ chart.drawn
    /\ chart.component \in TopNCharts
    /\ chart.maxItems > 0
    /\ Len(chart.data) > chart.maxItems
    /\ Len(chart.shown) = chart.maxItems

Donuts == {"DonutChart", "DonutChartTopThree"}

\* C20: in a share breakdown an "Other" entry is appended if and only if the
\* shown top-N counts add up to less than total; its count is then total
\* minus that sum, and no "Other" entry has a count of 0 or less.
C20_OtherIffRemainder ==
    (chart.drawn /\ chart.component \in Donuts) =>
        LET N == IF chart.component = "DonutChart" THEN DonutMaxItems ELSE DonutTopThree
            n == IF N < Len(chart.data) THEN N ELSE Len(chart.data)
            sum == sliceTotal(Num(0), SubSeq(chart.shown, 1, n))
            less == sum.t = "number" /\ sum.n < chart.total
        IN  /\ Len(chart.shown) = IF less THEN n + 1 ELSE n
            /\ less => /\ chart.shown[n + 1].key = "Other"
                       /\ chart.shown[n + 1].count = Num(chart.total - sum.n)
                       /\ chart.shown[n + 1].count.n > 0

\* a top-3 donut of four keys with the fourth song under "Other"
C20_OtherShown ==
    /\ chart.drawn
    /\ chart.component = "DonutChartTopThree"
    /\ Len(chart.data) = 4
    /\ Len(chart.shown) = 4
    /\ chart.shown[4] = [key |-> "Other", count |-> Num(1), share |-> Divide(Num(1), Num(4))]

(***************************************************************************)
(* Claims about the backend (checked under SpecServer)                     *)
(***************************************************************************)
\* the route answers request i without an error of the database
Served(i) == Serve(i, FALSE)

\* the four field values of a record or body
Values(r) == [f \in SongFields |-> r[f]]

\* C17: a PUT to /songs/:id responds with the updated record, carrying
\* identifier :id and the submitted field values, and changes no other
\* record of the store.
C17_PutReturnsUpdated ==
    [][\A i \in 1..MaxRequests :
           (Served(i) /\ tasks[i].kind = "update") =>
               LET body == tasks[i].payload.o
                   data == tasks'[i].response.data
               IN  /\ data.t = "object"
                   /\ data.o._id = body._id
                   /\ Values(data.o) = Values(body)
                   /\ Len(db') = Len(db)
                   /\ \A j \in DOMAIN db : db[j]._id # body._id => db'[j] = db[j]]_vars

\* C18: a successful POST to /songs stores the submitted record and returns
\* it with a new identifier, distinct from those of all records already
\* stored; a GET /songs that follows lists that record together with all
\* records stored before.
C18_PostStoresWithNewId ==
    [][\A i \in 1..MaxRequests :
           (Served(i) /\ tasks[i].kind = "add" /\ tasks'[i].response.status = 200) =>
               LET body == tasks[i].payload.o
                   data == tasks'[i].response.data
                   listed == getSongs(db').response.data.l
               IN  /\ data.t = "object"
                   /\ Values(data.o) = Values(body)
                   /\ data.o._id \notin Ids(db)
                   /\ data.o \in Records(db')
                   /\ data.o \in Records(listed)
                   /\ Records(db) \subseteq Records(listed)
                   /\ Len(listed) = Len(db) + 1]_vars

\* a POST was answered with the stored record while another record was stored
C18_PostedToNonEmptyStore ==
    \E i \in DOMAIN tasks :
        /\ tasks[i].kind = "add"
        /\ tasks[i].st = "answered"
        /\ tasks[i].response.status = 200
        /\ tasks[i].response.data.o \in Records(db)
        /\ Len(db) >= 2

\* C19: a DELETE to /songs/:id returns an acknowledgement naming :id whether
\* or not a record with that identifier exists; afterwards no stored record
\* has identifier :id and every other stored record is unchanged.
C19_DeleteAcknowledges ==
    [][\A i \in 1..MaxRequests :
           (Served(i) /\ tasks[i].kind = "delete") =>
               LET id == tasks[i].payload.s IN
               /\ tasks'[i].response =
                      Response(200, JsonObject([message |-> "Song deleted", id |-> id]))
               /\ id \notin Ids(db')
               /\ db' = SelectSeq(db, LAMBDA d : d._id # id)]_vars

\* a DELETE for an identifier never assigned was acknowledged, and the store
\* still holds its records
C19_DeletedMissing ==
    \E i \in DOMAIN tasks :
        /\ tasks[i].kind = "delete"
        /\ tasks[i].st = "answered"
        /\ tasks[i].payload.s = "9"
        /\ tasks[i].response.status = 200
        /\ db # <<>>

(***************************************************************************)
(* Claims about the application (checked under Spec)                       *)
(***************************************************************************)
\* C21: state.songs never holds two records with the same identifier, in any
\* interleaving of fetch, add, update and delete requests and their
\* responses.
C21_NoDuplicateIds ==
    \A i, j \in DOMAIN songs : songs[i]._id = songs[j]._id => i = j

\* C22: every request action is eventually followed by its Success or its
\* Failure action, so state.loading eventually returns to false; and after
\* an API call has failed the sagas still handle the requests dispatched
\* later (rootSaga keeps running).
C22_RequestsComplete ==
    /\ loading ~> ~loading
    /\ []sagaAlive

\* C23: as long as no call has failed, state.loading is true exactly when at
\* least one request is in flight (dispatched and its response not yet
\* reduced): with several requests in flight, loading does not become false
\* before the last of them has completed.
C23_LoadingIffInFlight ==
    sagaAlive => (loading <=> tasks # <<>>)

\* next is list with one record of the identifier replaced by record
Replaced(list, record, next) ==
    \E j \in DOMAIN list : list[j]._id = record._id /\ next = [list EXCEPT ![j] = record]

\* C24: state.songs changes only when the response of a completed call is
\* reduced: a record is appended only as returned by a successful POST,
\* replaced only by the record a successful PUT returned, removed only once
\* the DELETE of its identifier was acknowledged, and the list is replaced
\* only by a GET response; Request and Failure actions never change it.
C24_ChangesOnlyOnResponse ==
    [][songs' # songs =>
           \E i \in DOMAIN tasks :
               LET task == tasks[i]
                   data == task.response.data
               IN  /\ task.st = "answered"
                   /\ task.response.status = 200
                   /\ CASE task.kind = "fetch" -> data.t = "array" /\ songs' = data.l
                        [] task.kind = "add" ->
                               data.t = "object" /\ songs' = Append(songs, data.o)
                        [] task.kind = "update" ->
                               data.t = "object" /\ Replaced(songs, data.o, songs')
                        [] task.kind = "delete" ->
                               songs' = SelectSeq(songs, LAMBDA s : s._id # task.payload.s)]_vars

\* the record a PUT returned has replaced the seeded record in state.songs
C24_ReplacedByPutResponse ==
    /\ lastAction.action = "updateSongSuccess"
    /\ lastAction.payload.t = "object"
    /\ lastAction.payload.o \in Records(songs)
    /\ SeedSong \notin Records(songs)

(***************************************************************************)
(* Claims about submitting the form (checked under SpecForm)               *)
(***************************************************************************)
\* this step is a submit of the open form
Submitted == form.open /\ "lastEvent" \in DOMAIN form' /\ form'.lastEvent.type = "submit"

\* every field of the form passes the form's validation
AllValid == \A f \in SongFields : validateFieldError(form.impl, f, form.song[f]) = ""

\* the context form is submitted while an operation of the provider runs
Busy == form.impl = "context" /\ form.isLoading

\* the callback a submit invokes
Callback ==
    IF form.songToEdit # Null
    THEN [fn |-> "onUpdate", _id |-> form.songToEdit._id, song |-> form.song]
    ELSE [fn |-> "onSave", song |-> form.song]

\* the submit invoked the callback, reset the form and closed it
Accepted == form'.called = Callback /\ form'.song = initialSongState /\ ~form'.open

\* the submit invoked nothing and left the form open with its values
Refused == form'.called = NoCall /\ form'.song = form.song /\ form'.open

SameLetter(a, b) == a = b \/ \E u \in DOMAIN Lower : {a, b} = {u, Lower[u]}

\* value contains text, case-insensitively
Contains(value, text) ==
    \E k \in 0..(Len(value) - Len(text)) :
        \A i \in 1..Len(text) : SameLetter(value[k + i], text[i])

\* C26: the list shown is the order-preserving subsequence of the record set
\* made of exactly the records whose selected field contains the filter
\* text, compared case-insensitively (every record when the text is empty);
\* filtering changes neither the record set nor the statistics, which are
\* computed over the unfiltered record set.
C26_ListIsFilteredSubsequence ==
    view.rendered =>
        /\ songList.shown =
               SelectSeq(songs, LAMBDA s : Contains(Chars[s[songList.filterField]],
                                                    Chars[songList.filterText]))
        /\ songList.filterText = "" => songList.shown = songs
        /\ songs = db
        /\ view.totalSongs = Len(songs)
        /\ \A f \in TableFields : ViewTable(f) = countByField(songs, f)

\* a text typed in another case hides some records and shows others
C26_FilteredByCase ==
    /\ view.rendered
    /\ songList.filterText = "Ab"
    /\ songList.filterField = "Album"
    /\ Len(songList.shown) = 2
    /\ Len(songs) = 3

(***************************************************************************)
(* Claims about the delete dialog (checked under SpecDialog)               *)
(***************************************************************************)
\* this step dispatches a deleteSongRequest
DeleteRequested ==
    /\ lastAction'.action = "deleteSongRequest"
    /\ lastAction' # lastAction \/ Len(tasks') > Len(tasks)

\* this step answers the open dialog
Answered == Truthy(deleteSongId) /\ deleteSongId' = JsonNull

\* this step opens the dialog on a listed record
Opened ==
    /\ deleteSongId = JsonNull
    /\ \E i \in DOMAIN songs : deleteSongId' = JsonString(songs[i]._id)

\* C27: a deleteSongRequest is dispatched only by answering Yes in the dialog
\* that Delete opened on a record, and carries the identifier of that
\* record; No dispatches nothing; either answer leaves deleteSongId null,
\* and deleteSongId changes only by Delete on a listed record or an answer.
C27_DeleteOnlyAfterConfirmation ==
    [][/\ DeleteRequested => Answered /\ lastAction'.payload = deleteSongId
       /\ deleteSongId' # deleteSongId => Opened \/ Answered
       /\ \A i \in 1..MaxDeletable : PressDelete(i) => deleteSongId' = JsonString(songs[i]._id)
       /\ Yes => /\ deleteSongId' = JsonNull
                 /\ lastAction' = [action |-> "deleteSongRequest", payload |-> deleteSongId,
                                   threw |-> FALSE]
       /\ No => deleteSongId' = JsonNull /\ lastAction' = lastAction /\ tasks' = tasks
      ]_vars

\* Yes was answered for the second of two listed records
C27_SecondRecordConfirmed ==
    /\ deleteSongId = JsonNull
    /\ Len(songs) = 2
    /\ lastAction.action = "deleteSongRequest"
    /\ lastAction.payload = JsonString(songs[2]._id)
    /\ \E i \in DOMAIN tasks : tasks[i].kind = "delete" /\ tasks[i].payload = lastAction.payload

(***************************************************************************)
(* Claims about the documents of the store (checked under SpecServer)      *)
(***************************************************************************)
\* C28: every record of the remote store has Title, Artist, Album and Genre
\* present and non-empty, after any sequence of POST, PUT and DELETE requests
\* with arbitrary bodies.
C28_StoredFieldsNonEmpty ==
    \A i \in DOMAIN db : \A f \in SongFields : f \in DOMAIN db[i] /\ db[i][f] # ""

(***************************************************************************)
(* Claims about the donut legend (checked under SpecChart)                 *)
(***************************************************************************)
\* C29: the legend of DonutChart lists every shown top-N entry with its
\* count, one line per slice that is not the remainder bucket, for every
\* frequency table, one with a key "Other" included; the remainder bucket is
\* listed separately, and only when its count is greater than 0.
C29_LegendListsTopN ==
    (chart.drawn /\ chart.component = "DonutChart") =>
        LET n == IF DonutMaxItems < Len(chart.data) THEN DonutMaxItems ELSE Len(chart.data)
            bucket == Len(chart.shown) = n + 1
        IN  /\ chart.legend.lines = SubSeq(chart.shown, 1, n)
            /\ chart.legend.otherLine <=> (bucket /\ chart.shown[n + 1].count.n > 0)

====
